---- MODULE Spec2Model ----
(***************************************************************************)
(* Model of the Slurm job launcher of src/app.py: the reactive job record, *)
(* the narrative text, the files the run creates and removes, and the      *)
(* launch effect `_` cut at its await points.                              *)
(*                                                                         *)
(* Strings are sequences of tokens (a token is a word, a separator or a    *)
(* whitespace character), so that strip(), split() and upper() are         *)
(* computed and not assumed.  Optional values are sequences of length 0    *)
(* (None) or 1.                                                            *)
(***************************************************************************)
EXTENDS Integers, Sequences, FiniteSets, TLC

\* ------------------------------------------------------------------ bounds
MaxLaunches == 2
MaxClock == 2

\* --------------------------------------------------------- optional values
None == <<>>
Some(x) == <<x>>

\* ------------------------------------------------------- string operations
WS == {" ", "\n", "\t"}
BadByte == "\\xff"

RECURSIVE LStrip(_)
LStrip(s) == IF s = <<>> THEN <<>>
             ELSE IF Head(s) \in WS THEN LStrip(Tail(s)) ELSE s

RECURSIVE RStrip(_)
RStrip(s) == IF s = <<>> THEN <<>>
             ELSE IF s[Len(s)] \in WS THEN RStrip(SubSeq(s, 1, Len(s) - 1)) ELSE s

\* str.strip()
Strip(s) == RStrip(LStrip(s))

\* bytes.decode(): raises on an invalid byte
Decodable(b) == \A i \in 1..Len(b) : b[i] # BadByte

UpperTok(t) == CASE t = "completed" -> "COMPLETED"
                 [] t = "failed" -> "FAILED"
                 [] t = "cancelled by 1000" -> "CANCELLED BY 1000"
                 [] OTHER -> t

\* str.upper()
Upper(s) == [i \in 1..Len(s) |-> UpperTok(s[i])]

RECURSIVE BeforeFirst(_, _)
\* s.split(d)[0]
BeforeFirst(s, d) == IF s = <<>> THEN <<>>
                     ELSE IF Head(s) = d THEN <<>>
                     ELSE <<Head(s)>> \o BeforeFirst(Tail(s), d)

RECURSIVE FirstWord(_)
FirstWord(s) == IF s = <<>> THEN <<>>
                ELSE IF Head(s) \in WS THEN <<>>
                ELSE <<Head(s)>> \o FirstWord(Tail(s))

\* s.split(maxsplit=1): the list of parts, each a string
SplitMax1(s) ==
    LET t == LStrip(s)
        w == FirstWord(t)
        rest == LStrip(SubSeq(t, Len(w) + 1, Len(t)))
    IN  IF t = <<>> THEN <<>>
        ELSE IF rest = <<>> THEN <<w>>
        ELSE <<w, rest>>

\* needle is a contiguous part of hay
Contains(hay, needle) ==
    \E i \in 1..(Len(hay) + 1) :
        /\ i + Len(needle) - 1 <= Len(hay)
        /\ SubSeq(hay, i, i + Len(needle) - 1) = needle

EndsWith(hay, tail) ==
    /\ Len(tail) <= Len(hay)
    /\ SubSeq(hay, Len(hay) - Len(tail) + 1, Len(hay)) = tail


\* -------------------------------------------------------------- the files
\* fs maps each existing path to its file; os.path.exists(p) is p \in DOMAIN fs
ScriptPath == <<"shiny_generated_job.sh">>
StdoutFile(job_id) == <<"shiny_sleep_job_">> \o job_id \o <<".out">>
StderrFile(job_id) == <<"shiny_sleep_job_">> \o job_id \o <<".err">>

ScriptFile == [readable |-> TRUE, content |-> <<"#!/bin/bash">>]
ReadError == <<"[Errno 13] Permission denied">>

Exists(f, p) == p \in DOMAIN f
WriteFile(f, p, file) == [q \in DOMAIN f \cup {p} |-> IF q = p THEN file ELSE f[q]]
Remove(f, p) == [q \in DOMAIN f \ {p} |-> f[q]]

\* ----------------------------------------------------------- read_slurm_logs
OutputContent(f, job_id) ==
    LET stdout_file == StdoutFile(job_id)
    IN  IF Exists(f, stdout_file)
        THEN IF f[stdout_file].readable
             THEN f[stdout_file].content
             ELSE <<"(Could not read output file '">> \o stdout_file \o <<"': ">>
                      \o ReadError \o <<")">>
        ELSE <<"(Output file '">> \o stdout_file \o <<"' not found.)">>

\* mutant: no placeholder for a missing or unreadable error file
ErrorContent_NoPlaceholder(f, job_id) ==
    LET stderr_file == StderrFile(job_id)
    IN  IF Exists(f, stderr_file) /\ f[stderr_file].readable
        THEN f[stderr_file].content
        ELSE <<>>

ErrorContent(f, job_id) ==
    LET stderr_file == StderrFile(job_id)
    IN  IF Exists(f, stderr_file)
        THEN IF f[stderr_file].readable
             THEN f[stderr_file].content
             ELSE <<"(Could not read error file '">> \o stderr_file \o <<"': ">>
                      \o ReadError \o <<")">>
        ELSE <<"(Error file '">> \o stderr_file \o <<"' not found.)">>

OutBanner(job_id) == <<"--- Slurm Job ">> \o job_id \o <<" Standard Output ---", "\n">>
ErrBanner(job_id) == <<"--- Slurm Job ">> \o job_id \o <<" Standard Error ---", "\n">>

read_slurm_logs(f, job_id) ==
    OutBanner(job_id) \o Strip(OutputContent(f, job_id)) \o <<"\n", "\n">>
      \o ErrBanner(job_id) \o Strip(ErrorContent(f, job_id))
      \o <<"\n", "-----------------------------------------">>

\* ------------------------------------------------------------ the job record
NoJobLaunched == "No job launched"
JobRunning == "Job running"
JobCompleted == "Job completed"
NA == <<"N/A">>
UnknownNode == <<"Unknown Node">>

ResetRecord ==
    [status |-> NoJobLaunched, start_time |-> None, end_time |-> None,
     job_id |-> None, hostname |-> NA]

\* mutant: end_time stamped at submission
SubmittedRecord_Ended(now, current_job_id) ==
    [status |-> NoJobLaunched, start_time |-> Some(now), end_time |-> Some(now),
     job_id |-> Some(current_job_id), hostname |-> NA]

SubmittedRecord(now, current_job_id) ==
    [status |-> NoJobLaunched, start_time |-> Some(now), end_time |-> None,
     job_id |-> Some(current_job_id), hostname |-> NA]

RunningHostname(last_known_hostname) ==
    IF last_known_hostname # NA THEN last_known_hostname ELSE UnknownNode

\* mutant: the RUNNING branch stamps start_time on every poll
RunningRecord_Restamp(info, now, current_job_id, last_known_hostname) ==
    [status |-> JobRunning,
     start_time |-> Some(now),
     end_time |-> None,
     job_id |-> Some(current_job_id),
     hostname |-> RunningHostname(last_known_hostname)]

RunningRecord(info, now, current_job_id, last_known_hostname) ==
    [status |-> JobRunning,
     start_time |-> IF info.start_time # None THEN info.start_time ELSE Some(now),
     end_time |-> None,
     job_id |-> Some(current_job_id),
     hostname |-> RunningHostname(last_known_hostname)]

\* mutant: the COMPLETED write takes the job id from the shared record
CompletedRecord_SharedJobId(info, now, current_job_id, last_known_hostname) ==
    [status |-> JobCompleted, start_time |-> info.start_time, end_time |-> Some(now),
     job_id |-> info.job_id, hostname |-> last_known_hostname]

CompletedRecord(info, now, current_job_id, last_known_hostname) ==
    [status |-> JobCompleted, start_time |-> info.start_time, end_time |-> Some(now),
     job_id |-> Some(current_job_id), hostname |-> last_known_hostname]

\* mutant: the failure branch forgets end_time
FailedRecord_NoEnd(info, now, current_job_id, last_known_hostname) ==
    [status |-> NoJobLaunched, start_time |-> info.start_time, end_time |-> None,
     job_id |-> Some(current_job_id), hostname |-> last_known_hostname]

FailedRecord(info, now, current_job_id, last_known_hostname) ==
    [status |-> NoJobLaunched, start_time |-> info.start_time, end_time |-> Some(now),
     job_id |-> Some(current_job_id), hostname |-> last_known_hostname]

UnexpectedRecord(info, now, current_job_id, last_known_hostname) ==
    [status |-> NoJobLaunched, start_time |-> info.start_time, end_time |-> Some(now),
     job_id |-> Some(current_job_id), hostname |-> last_known_hostname]

\* ------------------------------------------------------------- the narrative
AttemptingMsg == <<"Attempting to launch Slurm job...">>

SubmittedMsg(job_id) ==
    <<"Slurm job ID: ">> \o job_id
      \o <<"\nJob status: Pending.\nPolling for job completion and node information...">>

RunningMsg(job_id, hostname) ==
    <<"Slurm job ID: ">> \o job_id \o <<"\nCurrently running on: ">> \o hostname
      \o <<"\nMonitoring job status and output...">>

PendingMsg(job_id) ==
    <<"Slurm job ID: ">> \o job_id \o <<"\nJob status: Pending. Waiting for allocation...">>

CompletedMsg(job_id, logs) ==
    <<"Slurm job ">> \o job_id \o <<" completed successfully.", "\n", "\n">> \o logs

FailedMsg(job_id, final_state, logs) ==
    <<"Slurm job ">> \o job_id \o <<" ended with state: ">> \o final_state
      \o <<".", "\n", "\n">> \o logs

ConsultText(job_id) ==
    <<"Please check Slurm logs directly on the cluster for job ID ">> \o job_id
      \o <<" and consult sacct -j ">> \o job_id \o <<".">>

UnexpectedStateMsg(job_id, final_state, logs) ==
    <<"Slurm job ">> \o job_id \o <<" ended in unexpected state: ">> \o final_state
      \o <<". ">> \o ConsultText(job_id) \o <<"\n", "\n">> \o logs

\* mutant: the failure message without the captured text
SubmitFailedMsg_NoText(error_message) == <<"Failed to submit Slurm job:", "\n">>

SubmitFailedMsg(error_message) == <<"Failed to submit Slurm job:", "\n">> \o error_message

ExceptionMsg(e) == <<"An unexpected error occurred: ">> \o e

\* -------------------------------------------------------- job_status_display
DefaultLine == <<"No job launched">>
RenderError == <<"TypeError">>

job_status_display(info) ==
    IF info.status = JobRunning
    THEN <<"Job running on host: ">> \o info.hostname
    ELSE IF info.status = JobCompleted
    THEN IF info.end_time # None /\ info.start_time # None
         THEN <<"Job Completed in ", ToString(info.end_time[1] - info.start_time[1]),
                " seconds.">>
         ELSE RenderError
    ELSE DefaultLine


\* ---------------------------------------------- parsing the scheduler output
RUNNING == <<"RUNNING">>
PENDING == <<"PENDING">>
COMPLETED == <<"COMPLETED">>
UNKNOWN == <<"UNKNOWN">>
FailureStates ==
    {<<"FAILED">>, <<"CANCELLED">>, <<"TIMEOUT">>, <<"NODE_FAIL">>, <<"PREEMPTED">>,
     <<"OUT_OF_MEMORY">>}

\* parts[0] of a non-empty squeue output, "" otherwise
JobState(squeue_output) ==
    IF squeue_output # <<>> THEN SplitMax1(squeue_output)[1] ELSE <<>>

\* current_hostname after the parse of one squeue output
CurrentHostname(squeue_output) ==
    IF squeue_output # <<>> /\ Len(SplitMax1(squeue_output)) > 1
    THEN Strip(SplitMax1(squeue_output)[2])
    ELSE <<"N/A">>

\* mutant: last_known_hostname overwritten by a blank report
LastKnownHostname_Overwrite(squeue_output, last_known_hostname) ==
    CurrentHostname(squeue_output)

\* last_known_hostname after the parse of one squeue output
LastKnownHostname(squeue_output, last_known_hostname) ==
    IF squeue_output # <<>> /\ Len(SplitMax1(squeue_output)) > 1
    THEN CurrentHostname(squeue_output)
    ELSE last_known_hostname

\* QueryRunning's node field: what follows the state, "" when nothing does
NodeField(squeue_output) ==
    LET state == FirstWord(squeue_output)
    IN  Strip(SubSeq(squeue_output, Len(state) + 1, Len(squeue_output)))

RECURSIVE FirstLine(_)
FirstLine(s) == IF s = <<>> THEN <<>>
                ELSE IF Head(s) = "\n" THEN <<>>
                ELSE <<Head(s)>> \o FirstLine(Tail(s))

\* QueryFinal: the first record's first field, trimmed and upper-cased;
\* UNKNOWN when there is no record
QueryFinal(output) ==
    IF Strip(output) = <<>> THEN <<"UNKNOWN">>
    ELSE Upper(Strip(BeforeFirst(FirstLine(Strip(output)), "|")))

\* mutant: a PENDING job taken for one that left the queue
PollBranch_PendingFinal(job_state) ==
    IF job_state = RUNNING THEN "running"
    ELSE IF job_state = PENDING \/ job_state = <<>> THEN "final"
    ELSE "other"

\* the branch of the if / elif chain the poll takes
PollBranch(job_state) ==
    IF job_state = RUNNING THEN "running"
    ELSE IF job_state = PENDING THEN "pending"
    ELSE IF job_state = <<>> THEN "final"
    ELSE "other"

\* mutant: `else` instead of `elif not job_state`
NextPc_ElseFinal(branch) == IF branch \in {"final", "other"} THEN "sacct" ELSE "sleep"

\* mutant: `break` after every poll
NextPc_AlwaysFinal(branch) == "sacct"

\* where the run waits next: the sacct process, or asyncio.sleep
NextPc(branch) == IF branch = "final" THEN "sacct" ELSE "sleep"

\* mutant: an empty sacct output taken for success
FinalState_EmptyCompleted(final_state_raw) ==
    IF final_state_raw # <<>>
    THEN Upper(Strip(BeforeFirst(final_state_raw, "|")))
    ELSE COMPLETED

FinalState(final_state_raw) ==
    IF final_state_raw # <<>>
    THEN Upper(Strip(BeforeFirst(final_state_raw, "|")))
    ELSE UNKNOWN

Classify(final_state) ==
    IF final_state = COMPLETED THEN "completed"
    ELSE IF final_state \in FailureStates THEN "failed"
    ELSE "unexpected"

\* ----------------------------------------------------------------- cleanup
\* `if current_job_id:`
Truthy(opt) == opt # None /\ opt[1] # <<>>

\* mutant: the finally block forgets the log files
CleanupTargets_ScriptOnly(current_job_id) == {ScriptPath}

\* the paths the finally block looks at
CleanupTargets(current_job_id) ==
    {ScriptPath}
      \cup (IF Truthy(current_job_id)
            THEN {StdoutFile(current_job_id[1]), StderrFile(current_job_id[1])}
            ELSE {})

\* the os.remove calls the finally block makes: one per target that exists
Removals(f, current_job_id) == {p \in CleanupTargets(current_job_id) : Exists(f, p)}

\* mutant: the finally block leaves the script in place
CleanupFs_KeepScript(f, current_job_id, failing) ==
    [q \in DOMAIN f \ ((Removals(f, current_job_id) \ failing) \ {ScriptPath}) |-> f[q]]

\* failing is the set of paths whose os.remove raises
CleanupFs(f, current_job_id, failing) ==
    [q \in DOMAIN f \ (Removals(f, current_job_id) \ failing) |-> f[q]]

\* the lines the finally block prints: which removals were tried and how they went
CleanupPrinted(f, current_job_id, failing) ==
    {[path |-> p, cleaned |-> p \notin failing] : p \in Removals(f, current_job_id)}

\* ------------------------------------------------------------------ inputs
Runs == {1, 2}

\* datetime.now() reads the wall clock
Times == 1..MaxClock

ExcTexts == {<<"[Errno 2] No such file or directory">>}
DecodeError == <<"utf-8 codec cannot decode byte 0xff">>

\* the id sbatch prints for the n-th launch
JobIdTok(n) == ToString(100 + n)
SbatchStdouts(n) == {<<JobIdTok(n), "\n">>, <<BadByte>>}
SbatchStderrs ==
    {<<"sbatch: error: invalid partition", "\n">>,
     <<"sbatch: error: invalid partition">>,
     <<BadByte>>}

SqueueOutputs ==
    {<<>>,
     <<"PENDING", " ", "\n">>,
     <<"RUNNING", " ", "node01", "\n">>,
     <<"RUNNING", " ", "\n">>,
     <<"COMPLETING", " ", "node02", "\n">>,
     <<BadByte>>}

SacctOutputs ==
    {<<>>,
     <<"COMPLETED", "\n">>,
     <<"COMPLETED", "|", "\n">>,
     <<"completed", "\n">>,
     <<"COMPLETED", "\n", "COMPLETED", "\n">>,
     <<"FAILED", "\n">>,
     <<"FAILED", "\n", "FAILED", "\n">>,
     <<"CANCELLED", "\n">>,
     <<"TIMEOUT", "\n">>,
     <<"NODE_FAIL", "\n">>,
     <<"PREEMPTED", "\n">>,
     <<"OUT_OF_MEMORY", "\n">>,
     <<"cancelled by 1000", "\n">>,
     <<"BOOT_FAIL", "\n">>,
     <<BadByte>>}

\* what the scheduler leaves in a job's --output / --error file
LogFiles ==
    {[readable |-> TRUE, content |-> <<"Slurm job started on node01", "\n">>],
     [readable |-> FALSE, content |-> <<>>]}

\* ------------------------------------------------------------------- state
VARIABLES
    job_info,            \* reactive.Value: the job record
    job_output_content,  \* reactive.Value: the narrative text
    lastWrite,           \* the job_info.set call that wrote job_info last
    fs,                  \* the files of the working directory
    launches,            \* number of clicks on launch_job so far
    pc,                  \* per run of the effect: the await it is suspended at
    loc                  \* per run of the effect: its local variables

vars == <<job_info, job_output_content, lastWrite, fs, launches, pc, loc>>

InitLoc ==
    [current_job_id |-> None, returncode |-> None, stderr |-> <<>>,
     last_known_hostname |-> NA, current_hostname |-> NA, job_state |-> <<>>,
     sacct_stdout |-> None, final_state |-> <<>>, logs_combined_content |-> <<>>,
     e |-> <<>>,
     branch |-> "none",   \* the exit of the try statement the run took
     printed |-> {},      \* what the finally block printed
     polls |-> 0,         \* iterations of the poll loop so far: 0, 1, or 2 for more
     click |-> 0,         \* which click on launch_job started the run
     stamps |-> {},       \* the datetime.now() values the run wrote as start_time
     observed |-> None]   \* the last non-empty node field a live query reported

Init ==
    /\ job_info = ResetRecord
    /\ job_output_content = <<>>
    /\ lastWrite = "init"
    /\ fs = [q \in {} |-> ScriptFile]
    /\ launches = 0
    /\ pc = [r \in Runs |-> "idle"]
    /\ loc = [r \in Runs |-> InitLoc]

\* ------------------------------------------------------- the end of a run
\* the finally block, with l the run's locals and f the files at that point
Finally(r, l, f) ==
    \E failing \in SUBSET Removals(f, l.current_job_id) :
        /\ fs' = CleanupFs(f, l.current_job_id, failing)
        /\ loc' = [loc EXCEPT ![r] =
                      [l EXCEPT !.printed = CleanupPrinted(f, l.current_job_id, failing)]]
        /\ pc' = [pc EXCEPT ![r] = "done"]

\* the except block followed by the finally block
Except(r, l, f, e) ==
    /\ job_info' = ResetRecord
    /\ lastWrite' = "exception"
    /\ job_output_content' = ExceptionMsg(e)
    /\ Finally(r, [l EXCEPT !.e = e, !.branch = "exception"], f)

\* --------------------------------------------------------------- the steps
\* click on launch_job: reset, write the script, chmod, spawn sbatch
Launch(r) ==
    /\ pc[r] \in {"idle", "done"}
    /\ launches < MaxLaunches
    /\ launches' = launches + 1
    /\ \/ /\ job_info' = ResetRecord
          /\ lastWrite' = "reset"
          /\ job_output_content' = AttemptingMsg
          /\ fs' = WriteFile(fs, ScriptPath, ScriptFile)
          /\ loc' = [loc EXCEPT ![r] = [InitLoc EXCEPT !.click = launches + 1]]
          /\ pc' = [pc EXCEPT ![r] = "sbatch"]
       \/ \* open() raises
          \E e \in ExcTexts : Except(r, [InitLoc EXCEPT !.click = launches + 1], fs, e)
       \/ \* os.chmod() raises
          \E e \in ExcTexts :
             Except(r, [InitLoc EXCEPT !.click = launches + 1],
                    WriteFile(fs, ScriptPath, ScriptFile), e)

\* sbatch has returned (or could not be run)
SubmitReturn(r) ==
    /\ pc[r] = "sbatch"
    /\ \/ \E e \in ExcTexts : Except(r, loc[r], fs, e)
       \/ \* returncode == 0
          \E stdout \in SbatchStdouts(loc[r].click), now \in Times :
             IF Decodable(stdout)
             THEN LET current_job_id == Strip(stdout)
                  IN  /\ job_info' = SubmittedRecord(now, current_job_id)
                      /\ lastWrite' = "submitted"
                      /\ job_output_content' = SubmittedMsg(current_job_id)
                      /\ loc' = [loc EXCEPT ![r].current_job_id = Some(current_job_id),
                                            ![r].returncode = Some(0),
                                            ![r].stamps = {now},
                                            ![r].last_known_hostname = NA]
                      /\ pc' = [pc EXCEPT ![r] = "squeue"]
                      /\ fs' = fs
             ELSE Except(r, [loc[r] EXCEPT !.returncode = Some(0)], fs, DecodeError)
       \/ \* returncode != 0
          \E stderr \in SbatchStderrs :
             IF Decodable(stderr)
             THEN /\ job_info' = ResetRecord
                  /\ lastWrite' = "submit_failed"
                  /\ job_output_content' = SubmitFailedMsg(Strip(stderr))
                  /\ Finally(r, [loc[r] EXCEPT !.returncode = Some(1),
                                               !.stderr = stderr,
                                               !.branch = "submit_failed"], fs)
             ELSE Except(r, [loc[r] EXCEPT !.returncode = Some(1), !.stderr = stderr],
                         fs, DecodeError)
    /\ UNCHANGED launches

\* squeue has returned (or could not be run): one iteration of the poll loop
PollReturn(r) ==
    /\ pc[r] = "squeue"
    /\ \/ \E e \in ExcTexts : Except(r, loc[r], fs, e)
       \/ \E check_stdout \in SqueueOutputs, now \in Times :
             IF ~Decodable(check_stdout)
             THEN Except(r, loc[r], fs, DecodeError)
             ELSE LET squeue_output == Strip(check_stdout)
                      job_state == JobState(squeue_output)
                      last_known_hostname ==
                          LastKnownHostname(squeue_output, loc[r].last_known_hostname)
                      current_job_id == loc[r].current_job_id[1]
                      branch == PollBranch(job_state)
                  IN  /\ loc' = [loc EXCEPT
                                    ![r].job_state = job_state,
                                    ![r].current_hostname = CurrentHostname(squeue_output),
                                    ![r].last_known_hostname = last_known_hostname,
                                    ![r].polls = IF @ < 2 THEN @ + 1 ELSE @,
                                    ![r].stamps = IF branch = "running"
                                                     /\ job_info.start_time = None
                                                  THEN @ \cup {now} ELSE @,
                                    ![r].observed = IF NodeField(squeue_output) # <<>>
                                                    THEN Some(NodeField(squeue_output))
                                                    ELSE @]
                      /\ pc' = [pc EXCEPT ![r] = NextPc(branch)]
                      /\ fs' = fs
                      /\ CASE branch = "running" ->
                                /\ job_info' = RunningRecord(job_info, now, current_job_id,
                                                             last_known_hostname)
                                /\ lastWrite' = "running"
                                /\ job_output_content' =
                                       RunningMsg(current_job_id, job_info'.hostname)
                           [] branch = "pending" ->
                                /\ job_output_content' = PendingMsg(current_job_id)
                                /\ UNCHANGED <<job_info, lastWrite>>
                           [] OTHER ->
                                UNCHANGED <<job_info, lastWrite, job_output_content>>
    /\ UNCHANGED launches

\* asyncio.sleep(5) is over: back to the top of the loop
WakeUp(r) ==
    /\ pc[r] = "sleep"
    /\ pc' = [pc EXCEPT ![r] = "squeue"]
    /\ UNCHANGED <<job_info, job_output_content, lastWrite, fs, launches, loc>>

\* sacct has returned (or could not be run): classify, read the logs, clean up
FinalReturn(r) ==
    /\ pc[r] = "sacct"
    /\ \/ \E e \in ExcTexts : Except(r, loc[r], fs, e)
       \/ \E sacct_stdout \in SacctOutputs, now \in Times :
             IF ~Decodable(sacct_stdout)
             THEN Except(r, [loc[r] EXCEPT !.sacct_stdout = Some(sacct_stdout)], fs,
                         DecodeError)
             ELSE LET final_state_raw == Strip(sacct_stdout)
                      final_state == FinalState(final_state_raw)
                      current_job_id == loc[r].current_job_id[1]
                      last_known_hostname == loc[r].last_known_hostname
                      logs_combined_content == read_slurm_logs(fs, current_job_id)
                      class == Classify(final_state)
                  IN  /\ lastWrite' = class
                      /\ CASE class = "completed" ->
                                /\ job_info' = CompletedRecord(job_info, now, current_job_id,
                                                               last_known_hostname)
                                /\ job_output_content' =
                                       CompletedMsg(current_job_id, logs_combined_content)
                           [] class = "failed" ->
                                /\ job_info' = FailedRecord(job_info, now, current_job_id,
                                                            last_known_hostname)
                                /\ job_output_content' =
                                       FailedMsg(current_job_id, final_state,
                                                 logs_combined_content)
                           [] OTHER ->
                                /\ job_info' = UnexpectedRecord(job_info, now, current_job_id,
                                                                last_known_hostname)
                                /\ job_output_content' =
                                       UnexpectedStateMsg(current_job_id, final_state,
                                                          logs_combined_content)
                      /\ Finally(r, [loc[r] EXCEPT
                                        !.sacct_stdout = Some(sacct_stdout),
                                        !.final_state = final_state,
                                        !.logs_combined_content = logs_combined_content,
                                        !.branch = class], fs)
    /\ UNCHANGED launches

\* ---------------------------------------------------------- the environment
\* the scheduler creates a log file of a submitted job
SchedulerWritesLog(r) ==
    /\ pc[r] \in {"squeue", "sleep", "sacct"}
    /\ \E path \in {StdoutFile(loc[r].current_job_id[1]), StderrFile(loc[r].current_job_id[1])},
          file \in LogFiles :
          /\ ~Exists(fs, path)
          /\ fs' = WriteFile(fs, path, file)
    /\ UNCHANGED <<job_info, job_output_content, lastWrite, launches, pc, loc>>

\* ------------------------------------------------------- the specifications
Step(r) ==
    \/ Launch(r)
    \/ SubmitReturn(r)
    \/ PollReturn(r)
    \/ WakeUp(r)
    \/ FinalReturn(r)
    \/ SchedulerWritesLog(r)

\* one run in flight at a time (a later launch starts after the earlier run ended)
Next == Step(1)

Spec == Init /\ [][Next]_vars

\* a second click while the first run is still in flight: the two invocations of
\* the effect interleave at their awaits; each is started once
LaunchFirst(r) == pc[r] = "idle" /\ Launch(r)

\* the runs of the overlap: nothing raises, every os.remove succeeds, and the
\* scheduler's answers are the common ones
Quiet(r) ==
    /\ loc[r].branch # "exception"
    /\ \A line \in loc[r].printed : line.cleaned
    /\ loc[r].stderr \in {<<>>, <<"sbatch: error: invalid partition", "\n">>}
    /\ loc[r].job_state \in {<<>>, RUNNING, PENDING}
    /\ loc[r].sacct_stdout \in {None, Some(<<"COMPLETED", "\n">>), Some(<<"FAILED", "\n">>)}

QuietLaunch(r) == LaunchFirst(r) /\ Quiet(r)'
QuietSubmitReturn(r) == SubmitReturn(r) /\ Quiet(r)'
QuietPollReturn(r) == PollReturn(r) /\ Quiet(r)'
QuietFinalReturn(r) == FinalReturn(r) /\ Quiet(r)'

OverlapStep(r) ==
    \/ QuietLaunch(r)
    \/ QuietSubmitReturn(r)
    \/ QuietPollReturn(r)
    \/ WakeUp(r)
    \/ QuietFinalReturn(r)

NextOverlap == OverlapStep(1) \/ OverlapStep(2)

SpecOverlap == Init /\ [][NextOverlap]_vars

\* one run, started once, whose awaits all return: the event loop resumes the
\* coroutine when the awaited process exits or the sleep is over
NextLive ==
    \/ LaunchFirst(1)
    \/ SubmitReturn(1)
    \/ PollReturn(1)
    \/ WakeUp(1)
    \/ FinalReturn(1)
    \/ SchedulerWritesLog(1)

SpecLive ==
    /\ Init
    /\ [][NextLive]_vars
    /\ WF_vars(SubmitReturn(1))
    /\ WF_vars(PollReturn(1))
    /\ WF_vars(WakeUp(1))
    /\ WF_vars(FinalReturn(1))

\* the Log Reader on its own: the two log files of a job are each missing,
\* unreadable or readable, and read_slurm_logs is called twice (once by each
\* caller) with the files left as they are
ReaderJobs == {<<"101">>, <<"102">>}

ReaderFiles ==
    LogFiles \cup {[readable |-> TRUE, content |-> <<>>],
                   [readable |-> TRUE, content |-> <<"\n", "line 1", "\n", "line 2", " ", "\n">>]}

\* a file, or None for a missing one
ReaderFileOpts == {None} \cup {Some(file) : file \in ReaderFiles}

FsWith(job_id, out, err) ==
    [q \in (IF out = None THEN {} ELSE {StdoutFile(job_id)})
            \cup (IF err = None THEN {} ELSE {StderrFile(job_id)}) |->
        IF q = StdoutFile(job_id) THEN out[1] ELSE err[1]]

InitReader ==
    \E job_id \in ReaderJobs, out \in ReaderFileOpts, err \in ReaderFileOpts :
        /\ job_info = ResetRecord
        /\ job_output_content = <<>>
        /\ lastWrite = "init"
        /\ fs = FsWith(job_id, out, err)
        /\ launches = 0
        /\ pc = [r \in Runs |-> "idle"]
        /\ loc = [r \in Runs |-> [InitLoc EXCEPT !.current_job_id = Some(job_id)]]

\* one call of read_slurm_logs: the files are opened for reading only
ReadLogs(r) ==
    /\ pc[r] = "idle"
    /\ pc' = [pc EXCEPT ![r] = "done"]
    /\ loc' = [loc EXCEPT ![r].logs_combined_content =
                              read_slurm_logs(fs, loc[r].current_job_id[1])]
    /\ fs' = fs
    /\ UNCHANGED <<job_info, job_output_content, lastWrite, launches>>

NextReader == ReadLogs(1) \/ ReadLogs(2)

SpecReader == InitReader /\ [][NextReader]_vars

\* ================================================================ properties
Classified == {"completed", "failed", "unexpected"}

\* the finally block tried to remove p: p is gone, or its os.remove failed
RemovalTried(r, p) ==
    \/ ~Exists(fs, p)
    \/ [path |-> p, cleaned |-> FALSE] \in loc[r].printed

\* ------------------------------------------------------------------------ C1
\* C1 as stated: a run whose live query reported a non-empty state other than
\* RUNNING or PENDING goes on to the historical query in that iteration, so a
\* run suspended in asyncio.sleep has last seen RUNNING or PENDING.
C1_Original ==
    \A r \in Runs : pc[r] = "sleep" => loc[r].job_state \in {RUNNING, PENDING}

\* C1 as amended: the historical query is issued exactly in the iterations in
\* which the live query returned empty output; on any other non-empty state than
\* RUNNING or PENDING the iteration leaves the job record and the narrative as
\* they were, and the run suspends and polls the live queue again.
C1_Amended ==
    [][\A r \in Runs :
          (pc[r] = "squeue" /\ pc'[r] \in {"sleep", "sacct"}) =>
              /\ (pc'[r] = "sacct") <=> (loc'[r].job_state = <<>>)
              /\ loc'[r].job_state \notin {RUNNING, PENDING, <<>>} =>
                     /\ pc'[r] = "sleep"
                     /\ job_info' = job_info
                     /\ job_output_content' = job_output_content]_vars

C1_Witness ==
    \E r \in Runs : pc[r] = "sleep" /\ loc[r].job_state = <<"COMPLETING">>

\* ------------------------------------------------------------------------ C2
\* C2: after every poll in which the live query reports PENDING the record is
\* in phase Pending (default status, job id kept, no end time) and the status
\* line shows the default phrase.
C2_Claim ==
    \A r \in Runs :
        (pc[r] = "sleep" /\ loc[r].job_state = PENDING) =>
            /\ job_info.status = NoJobLaunched
            /\ job_info.job_id = loc[r].current_job_id
            /\ job_info.end_time = None
            /\ job_status_display(job_info) = DefaultLine

\* ------------------------------------------------------------------------ C3
\* C3: when the historical query's state is one of the six failure states the
\* run ends with the default status (phase Failed), end_time set, the job id
\* kept, and a message that names the state and then gives the log bundle.
C3_FailureEndsFailed ==
    \A r \in Runs :
        (/\ pc[r] = "done"
         /\ loc[r].sacct_stdout # None
         /\ Decodable(loc[r].sacct_stdout[1])
         /\ QueryFinal(loc[r].sacct_stdout[1]) \in FailureStates) =>
            /\ lastWrite \in {"failed", "unexpected"}
            /\ job_info.status = NoJobLaunched
            /\ job_status_display(job_info) = DefaultLine
            /\ job_info.end_time # None
            /\ job_info.job_id = loc[r].current_job_id
            /\ job_info.job_id # None
            /\ EndsWith(job_output_content, loc[r].logs_combined_content)
            /\ Contains(SubSeq(job_output_content, 1,
                               Len(job_output_content) - Len(loc[r].logs_combined_content)),
                        QueryFinal(loc[r].sacct_stdout[1]))
            /\ Contains(loc[r].logs_combined_content, OutBanner(loc[r].current_job_id[1]))
            /\ Contains(loc[r].logs_combined_content, ErrBanner(loc[r].current_job_id[1]))

C3_Witness ==
    \E r \in Runs :
        /\ pc[r] = "done"
        /\ loc[r].sacct_stdout = Some(<<"OUT_OF_MEMORY", "\n">>)
        /\ lastWrite = "failed"
        /\ job_info.end_time # None

\* ------------------------------------------------------------------------ C4
\* C4: when the first live query returns empty output and the historical
\* query's state is COMPLETED, the run ends Completed with end_time set and the
\* success message followed by the log bundle.
C4_Claim ==
    \A r \in Runs :
        (/\ pc[r] = "done"
         /\ loc[r].polls = 1
         /\ loc[r].job_state = <<>>
         /\ loc[r].sacct_stdout # None
         /\ Decodable(loc[r].sacct_stdout[1])
         /\ QueryFinal(loc[r].sacct_stdout[1]) = COMPLETED) =>
            /\ lastWrite = "completed"
            /\ job_info.status = JobCompleted
            /\ job_info.end_time # None
            /\ job_output_content =
                   CompletedMsg(loc[r].current_job_id[1], loc[r].logs_combined_content)

\* ------------------------------------------------------------------------ C5
\* C5: when the historical query's state is UNKNOWN (no record) or any value
\* other than COMPLETED and the six failure states, the run ends with the default
\* status (phase Failed), end_time set and the job id kept, by the
\* unexpected-state branch and not by the exception handler, and the message
\* names the state and tells the user to consult sacct.
C5_UnrecognisedEndsFailed ==
    \A r \in Runs :
        (/\ pc[r] = "done"
         /\ loc[r].sacct_stdout # None
         /\ Decodable(loc[r].sacct_stdout[1])
         /\ QueryFinal(loc[r].sacct_stdout[1]) \notin FailureStates \cup {COMPLETED}) =>
            /\ lastWrite = "unexpected"
            /\ loc[r].branch = "unexpected"
            /\ loc[r].e = <<>>
            /\ job_info # ResetRecord
            /\ job_info.status = NoJobLaunched
            /\ job_info.end_time # None
            /\ job_info.job_id = loc[r].current_job_id
            /\ job_info.job_id # None
            /\ Contains(job_output_content, QueryFinal(loc[r].sacct_stdout[1]))
            /\ Contains(job_output_content, ConsultText(loc[r].current_job_id[1]))

C5_Witness ==
    \E r \in Runs :
        /\ pc[r] = "done"
        /\ loc[r].sacct_stdout = Some(<<>>)
        /\ loc[r].final_state = UNKNOWN
        /\ lastWrite = "unexpected"

\* ------------------------------------------------------------------------ C6
\* C6 as stated: after a non-zero exit of sbatch no query is issued and no log
\* is read, the record is the fresh record, the script's removal is tried, and
\* the message contains the captured stderr text verbatim.
C6_Original ==
    \A r \in Runs :
        (loc[r].returncode = Some(1) /\ Decodable(loc[r].stderr)) =>
            /\ pc[r] = "done"
            /\ loc[r].polls = 0
            /\ loc[r].sacct_stdout = None
            /\ loc[r].logs_combined_content = <<>>
            /\ job_info = ResetRecord
            /\ RemovalTried(r, ScriptPath)
            /\ Contains(job_output_content, loc[r].stderr)

\* C6 as amended: the same, but the message contains the captured stderr text
\* with its leading and trailing whitespace removed (verbatim only when it has
\* none); when stderr cannot be decoded the exception handler publishes the
\* decoding error instead.
C6_Amended ==
    \A r \in Runs :
        loc[r].returncode = Some(1) =>
            /\ pc[r] = "done"
            /\ loc[r].polls = 0
            /\ loc[r].sacct_stdout = None
            /\ loc[r].logs_combined_content = <<>>
            /\ job_info = ResetRecord
            /\ RemovalTried(r, ScriptPath)
            /\ IF Decodable(loc[r].stderr)
               THEN /\ lastWrite = "submit_failed"
                    /\ Contains(job_output_content, Strip(loc[r].stderr))
                    /\ loc[r].stderr = Strip(loc[r].stderr) =>
                           Contains(job_output_content, loc[r].stderr)
               ELSE /\ lastWrite = "exception"
                    /\ job_output_content = ExceptionMsg(DecodeError)

C6_Witness ==
    \E r \in Runs :
        /\ pc[r] = "done"
        /\ loc[r].returncode = Some(1)
        /\ loc[r].stderr = <<"sbatch: error: invalid partition", "\n">>
        /\ Contains(job_output_content, <<"sbatch: error: invalid partition">>)
        /\ ~Exists(fs, ScriptPath)

\* ------------------------------------------------------------------------ C7
\* C7: a run that ended in the exception handler leaves the fresh record and a
\* message containing the exception's text, and its finally block has tried to
\* remove the script and, when a job id had been obtained, the two log files.
C7_ExceptionResets ==
    \A r \in Runs :
        (pc[r] = "done" /\ loc[r].branch = "exception") =>
            /\ job_info = ResetRecord
            /\ job_info.job_id = None
            /\ job_info.start_time = None
            /\ job_info.end_time = None
            /\ loc[r].e # <<>>
            /\ Contains(job_output_content, loc[r].e)
            /\ RemovalTried(r, ScriptPath)
            /\ loc[r].current_job_id # None =>
                   /\ RemovalTried(r, StdoutFile(loc[r].current_job_id[1]))
                   /\ RemovalTried(r, StderrFile(loc[r].current_job_id[1]))

C7_Witness ==
    \E r \in Runs :
        /\ pc[r] = "done"
        /\ loc[r].branch = "exception"
        /\ loc[r].current_job_id # None
        /\ [path |-> StdoutFile(loc[r].current_job_id[1]), cleaned |-> TRUE]
               \in loc[r].printed
        /\ [path |-> ScriptPath, cleaned |-> TRUE] \in loc[r].printed
        /\ job_info = ResetRecord

\* ------------------------------------------------------------------------ C8
\* C8: once a run has finished, by whichever exit, the script is no longer at
\* its path unless its os.remove failed.
C8_ScriptGone ==
    \A r \in Runs :
        (pc[r] = "done" /\ [path |-> ScriptPath, cleaned |-> FALSE] \notin loc[r].printed) =>
            ~Exists(fs, ScriptPath)

C8_Witness ==
    \E r \in Runs :
        /\ pc[r] = "done"
        /\ loc[r].branch = "completed"
        /\ [path |-> ScriptPath, cleaned |-> TRUE] \in loc[r].printed
        /\ ~Exists(fs, ScriptPath)

\* ------------------------------------------------------------------------ C9
\* C9: after a poll that reported RUNNING with no node, the record's hostname
\* is the last non-empty node an earlier poll of the run reported, or the
\* Unknown Node placeholder when there was none; the hostname is never empty.
C9_HostnameKept ==
    /\ job_info.hostname # <<>>
    /\ \A r \in Runs :
          (pc[r] = "sleep" /\ loc[r].job_state = RUNNING /\ loc[r].current_hostname = NA) =>
              job_info.hostname =
                  IF loc[r].observed = None THEN UnknownNode ELSE loc[r].observed[1]

C9_Witness ==
    \E r \in Runs :
        /\ pc[r] = "sleep"
        /\ loc[r].job_state = RUNNING
        /\ loc[r].current_hostname = NA
        /\ loc[r].observed = Some(<<"node01">>)
        /\ job_info.hostname = <<"node01">>

\* ----------------------------------------------------------------------- C10
\* C10: end_time is set exactly when the record was last written by one of the
\* three final classifications; the reset, the submission, a RUNNING poll, a
\* submission failure and the exception handler all leave it absent.
C10_EndTimeIffFinal ==
    /\ (job_info.end_time # None) <=> (lastWrite \in Classified)
    /\ lastWrite = "completed" <=> job_info.status = JobCompleted
    /\ lastWrite = "running" <=> job_info.status = JobRunning

C10_Witness ==
    /\ launches = 2
    /\ lastWrite = "running"
    /\ job_info.end_time = None
    /\ job_info.start_time # None

\* ----------------------------------------------------------------------- C11
\* C11: the record is superseded, never merged: whenever it carries the job id
\* of a run, its start_time is one that run wrote (and so is present), also
\* when a second launch overlaps the first run.
C11_Claim ==
    \A r \in Runs :
        (job_info.job_id # None /\ job_info.job_id = loc[r].current_job_id) =>
            /\ job_info.start_time # None
            /\ job_info.start_time[1] \in loc[r].stamps

\* ----------------------------------------------------------------------- C12
\* C12: with two overlapping runs and no lock, the write of the run that
\* finishes is what the record and the narrative hold when it finishes, and
\* nothing changes them once both runs have finished: the last run to finish
\* wins, which can be the run launched first.
C12_LastFinisherWins ==
    [][/\ \A r \in Runs :
             (pc[r] # "done" /\ pc'[r] = "done") =>
                 IF loc'[r].branch \in Classified
                 THEN /\ job_info'.job_id = loc'[r].current_job_id
                      /\ job_info'.end_time # None
                      /\ job_info'.status =
                             (IF loc'[r].branch = "completed" THEN JobCompleted
                              ELSE NoJobLaunched)
                      /\ job_output_content' =
                             (IF loc'[r].branch = "completed"
                              THEN CompletedMsg(loc'[r].current_job_id[1],
                                                loc'[r].logs_combined_content)
                              ELSE FailedMsg(loc'[r].current_job_id[1], loc'[r].final_state,
                                             loc'[r].logs_combined_content))
                 ELSE /\ job_info' = ResetRecord
                      /\ job_output_content' = SubmitFailedMsg(Strip(loc'[r].stderr))
       /\ (\A r \in Runs : pc[r] = "done") =>
              (job_info' = job_info /\ job_output_content' = job_output_content)]_vars

\* both runs were classified, and the record is that of the run launched first
C12_Witness ==
    \E a \in Runs, b \in Runs :
        /\ pc[a] = "done" /\ pc[b] = "done"
        /\ loc[a].click = 1 /\ loc[b].click = 2
        /\ loc[a].branch = "failed" /\ loc[b].branch = "completed"
        /\ job_info.job_id = loc[a].current_job_id
        /\ job_info.status = NoJobLaunched
        /\ Contains(job_output_content, <<" ended with state: ", "FAILED">>)

\* ----------------------------------------------------------------------- C13
\* the run has called read_slurm_logs (a bundle is never empty)
LogsRead(r) == loc[r].logs_combined_content # <<>>

\* the run's finally block has removed a log file
LogsRemoved(r) ==
    \E line \in loc[r].printed : line.cleaned /\ line.path # ScriptPath

\* C13 as stated, its last part: a run deletes its log files only after it has
\* read them.
C13_Original ==
    \A r \in Runs : LogsRemoved(r) => LogsRead(r)

\* C13 as amended: the logs are read in the step in which sacct has returned,
\* which follows a live query with empty output and ends the run (so they are
\* read at most once and never while the job is reported PENDING or RUNNING), and
\* a run that read them removes them only in that step, after the read; a run
\* that ends in the exception handler removes them without having read them.
C13_Amended ==
    /\ [](\A r \in Runs :
             /\ pc[r] \in {"sbatch", "squeue", "sleep", "sacct"} =>
                    (~LogsRead(r) /\ loc[r].printed = {})
             /\ LogsRead(r) =>
                    /\ pc[r] = "done"
                    /\ loc[r].branch \in Classified
                    /\ loc[r].job_state = <<>>
                    /\ loc[r].sacct_stdout # None
             /\ LogsRemoved(r) => (LogsRead(r) \/ loc[r].branch = "exception"))
    /\ [][\A r \in Runs :
             (~LogsRead(r) /\ LogsRead(r)') =>
                 /\ pc[r] = "sacct"
                 /\ loc[r].job_state = <<>>
                 /\ pc'[r] = "done"]_vars

C13_Witness ==
    \E r \in Runs :
        /\ pc[r] = "done"
        /\ loc[r].branch = "completed"
        /\ LogsRead(r)
        /\ [path |-> StdoutFile(loc[r].current_job_id[1]), cleaned |-> TRUE] \in loc[r].printed
        /\ [path |-> StderrFile(loc[r].current_job_id[1]), cleaned |-> TRUE] \in loc[r].printed
        /\ Contains(loc[r].logs_combined_content, <<"Slurm job started on node01">>)

\* ----------------------------------------------------------------------- C14
\* C14: the status line is always one of three renderings, the running one
\* exactly for status Job running, the completed one exactly for Job completed,
\* the default one otherwise; it never fails to render and never carries error
\* text, exception text or log content.
C14_Claim ==
    LET line == job_status_display(job_info)
    IN  /\ line # RenderError
        /\ (job_info.status = JobRunning) <=>
               (line = <<"Job running on host: ">> \o job_info.hostname)
        /\ (job_info.status = JobCompleted) <=>
               (Len(line) = 3 /\ line[1] = "Job Completed in " /\ line[3] = " seconds.")
        /\ (job_info.status \notin {JobRunning, JobCompleted}) <=> (line = DefaultLine)
        /\ \A r \in Runs :
              /\ loc[r].e # <<>> => ~Contains(line, loc[r].e)
              /\ Strip(loc[r].stderr) # <<>> => ~Contains(line, Strip(loc[r].stderr))
              /\ LogsRead(r) => ~Contains(line, loc[r].logs_combined_content)

\* ----------------------------------------------------------------------- C17
\* C17: whenever the record's status is Job completed, start_time and end_time
\* are both set, so the duration of the status line can be computed, also when
\* a second launch reset the record while the first run was polling.
C17_Claim ==
    job_info.status = JobCompleted =>
        (job_info.start_time # None /\ job_info.end_time # None)

\* ----------------------------------------------------------------------- C18
\* C18: from the write of the script until the run's own sbatch has returned,
\* the script is at its path, whatever an overlapping run's cleanup does.
C18_Claim ==
    \A r \in Runs : pc[r] = "sbatch" => Exists(fs, ScriptPath)

\* ----------------------------------------------------------------------- C15
\* what a bundle must show for one log file: its trimmed content, or a
\* placeholder naming the file when it is missing or cannot be read
ShowsFile(bundle, path, missing, unreadable) ==
    IF ~Exists(fs, path) THEN Contains(bundle, missing \o path \o <<"' not found.)">>)
    ELSE IF ~fs[path].readable THEN Contains(bundle, unreadable \o path \o <<"': ">>)
    ELSE Contains(bundle, Strip(fs[path].content))

CleanupDone(r) ==
    /\ pc[r] = "done"
    /\ \A p \in CleanupTargets(loc[r].current_job_id) : RemovalTried(r, p)

\* C16 as stated: a run that has gone on to the historical query ends in a
\* final phase (Completed or Failed) with end_time set.
C16_Original ==
    [][(pc[1] = "sacct" /\ pc'[1] = "done") =>
          (lastWrite' \in Classified /\ job_info'.end_time # None)]_vars

\* C16 amended: a live query that reports RUNNING or PENDING keeps the run in
\* the poll loop (asleep, no final write, no end_time, no file removed), one
\* that reports nothing sends it to the historical query; and under fair
\* scheduling a run at the historical query eventually ends, either in a
\* final phase with end_time set or, when the query raises or its output
\* cannot be decoded, in the reset record of the exception path, with cleanup
\* completed in both cases.
C16_Amended ==
    /\ [][(pc[1] = "squeue" /\ pc'[1] # "squeue" /\ loc'[1].branch # "exception") =>
             /\ loc'[1].job_state \in {RUNNING, PENDING} =>
                   /\ pc'[1] = "sleep"
                   /\ lastWrite' \notin Classified
                   /\ job_info'.end_time = None
                   /\ fs' = fs
             /\ loc'[1].job_state = <<>> => pc'[1] = "sacct"]_vars
    /\ (pc[1] = "sacct") ~>
           (/\ CleanupDone(1)
            /\ \/ lastWrite \in Classified /\ job_info.end_time # None
               \/ lastWrite = "exception" /\ job_info = ResetRecord)

C16_Witness ==
    /\ CleanupDone(1)
    /\ loc[1].polls = 2
    /\ loc[1].job_state = <<>>
    /\ lastWrite = "failed"
    /\ job_info.end_time # None
    /\ ~Exists(fs, ScriptPath)

\* ----------------------------------------------------------------------- C19
\* C19: with one run in flight, submission success writes job_id and
\* start_time into a record that had neither; every later step of the run
\* that does not take the exception path (PENDING poll, RUNNING poll, other
\* poll, final classification) leaves both as they were; and a PENDING poll
\* leaves the whole record as it was and writes only the message.
C19_Frame ==
    [][/\ (pc[1] = "sbatch" /\ pc'[1] = "squeue") =>
            /\ job_info.job_id = None /\ job_info.start_time = None
            /\ job_info'.job_id = loc'[1].current_job_id
            /\ job_info'.job_id # None /\ job_info'.start_time # None
       /\ (pc[1] \in {"squeue", "sacct"} /\ pc'[1] # pc[1]
             /\ loc'[1].branch # "exception") =>
            /\ job_info'.job_id = job_info.job_id
            /\ job_info'.start_time = job_info.start_time
            /\ job_info'.job_id = loc[1].current_job_id
            /\ job_info'.start_time # None
       /\ (pc[1] = "squeue" /\ pc'[1] # pc[1] /\ loc'[1].branch # "exception"
             /\ loc'[1].job_state = <<"PENDING">>) =>
            /\ job_info' = job_info
            /\ lastWrite' = lastWrite
            /\ job_output_content' = PendingMsg(loc[1].current_job_id[1])]_vars

C19_Witness ==
    /\ pc[1] = "sleep"
    /\ loc[1].job_state = <<"PENDING">>
    /\ loc[1].polls = 2
    /\ job_info.job_id = loc[1].current_job_id
    /\ job_info.job_id # None
    /\ job_info.start_time # None
    /\ job_info.start_time[1] \in loc[1].stamps
    /\ job_output_content = PendingMsg(loc[1].current_job_id[1])

====
